---- MODULE Spec2Model ----
(***************************************************************************)
(* Crypto AI Briefing Dashboard (src/app.py).                              *)
(*                                                                         *)
(* One execution of the script is a "run": it fetches prices and news      *)
(* through two time-bounded caches, renders the price and sentiment cards, *)
(* asks the text-generation provider for a summary and renders the news    *)
(* list.  The caches live across runs; everything else is per run.         *)
(*                                                                         *)
(* Python values are held as records: a decoded JSON body is               *)
(* [type |-> "None" | "dict" | "list", items |-> ...]; a dict's items are  *)
(* a function from its keys.  Percentages are fixed-point integers, Scale  *)
(* units to one percent.  Texts are sequences of tokens.  Time is in       *)
(* seconds.                                                                *)
(***************************************************************************)
EXTENDS Integers, Sequences, FiniteSets, TLC

\* ------------------------------------------------------------------ bounds
\* Fixed-point resolution of a 24h change: units per percent.
Scale == 2
\* 24h changes range over -MaxChange..MaxChange units.
MaxChange == 6
\* The news provider returns at most this many posts.
MaxResults == 6
\* How far the clock moves in one step, in units of ClockStep seconds.
MaxTick == 2

\* ------------------------------------------------------- program constants
PricesTtl == 300
NewsTtl == 600
NewsLimit == 5
HeadlineLimit == 3
GreedAbove == 2
OptimisticAbove == 0
CautiousAbove == -2
\* Granularity of the modelled clock, in seconds.
ClockStep == 100

\* ------------------------------------------------------------ Python values
PyNone == [type |-> "None", items |-> <<>>]
PyDict(f) == [type |-> "dict", items |-> f]
PyList(s) == [type |-> "list", items |-> s]
\* `if prices is not None:` in place of `if prices:`.
TruthyNotNone(v) == v.type # "None"
\* Python truthiness, as `if prices:` and `if news:` use it.
Truthy(v) == v.type # "None" /\ DOMAIN v.items # {}
HasKey(d, k) == k \in DOMAIN d

Min(a, b) == IF a < b THEN a ELSE b
\* s[:n]
Take(s, n) == SubSeq(s, 1, Min(n, Len(s)))

\* ------------------------------------------------ price provider responses
AssetIds == {"bitcoin", "ethereum"}
\* Spot prices, in whole dollars.
UsdValues == {65000}
Changes == (0 - MaxChange)..MaxChange
\* The changes the pipeline specification draws from: one per sentiment side.
PipelineChanges == {0 - MaxChange, MaxChange}

\* One asset's entry of the price body: both fields, or one of them missing.
QuoteEntries(changes) ==
    {[usd |-> u, usd_24h_change |-> c] : u \in UsdValues, c \in changes}
        \cup {[usd |-> u] : u \in UsdValues}
        \cup {[usd_24h_change |-> c] : c \in changes}

\* The body the provider sends with an authentication rejection: a JSON
\* object, but with no asset in it.
AuthRejectedBody == PyDict([status |-> [error_code |-> 401]])

\* Every decoded body: null, the rejection, and an object holding any subset
\* of the two assets (the empty object included).
PriceBodies(changes) ==
    {PyNone, AuthRejectedBody}
        \cup {PyDict(f) : f \in UNION {[D -> QuoteEntries(changes)] : D \in SUBSET AssetIds}}

\* What requests.get(...) followed by response.json() can do.
PriceResponses(changes) ==
    {[kind |-> k, body |-> PyNone] : k \in {"connection_error", "invalid_json"}}
        \cup {[kind |-> "json", body |-> b] : b \in PriceBodies(changes)}

\* The body has both assets, each with both fields.
WellFormed(price_data) ==
    /\ price_data.type = "dict"
    /\ \A a \in AssetIds :
          /\ HasKey(price_data.items, a)
          /\ HasKey(price_data.items[a], "usd")
          /\ HasKey(price_data.items[a], "usd_24h_change")

\* get_crypto_prices' body: the decoded JSON whatever it holds, or None and
\* an inline error when the request or the decoding raises.
PriceFetch(resp) ==
    IF resp.kind = "json"
    THEN [value |-> resp.body, msgs |-> <<>>]
    ELSE [value |-> PyNone, msgs |-> <<"error_fetching_prices">>]

\* ------------------------------------------------- news provider responses
ItemKeys == {"title", "source", "published_at"}
NewsItem(i) == [title |-> i, source |-> [title |-> i], published_at |-> i]
\* NewsItem(i) without the key k.
ItemWithout(i, k) == [x \in ItemKeys \ {k} |-> NewsItem(i)[x]]

Ascending(n) == [i \in 1..n |-> NewsItem(i)]
Descending(n) == [i \in 1..n |-> NewsItem(n + 1 - i)]
\* Ascending(n) whose j-th post lacks the key k.
Defective(n, j, k) == [i \in 1..n |-> IF i = j THEN ItemWithout(i, k) ELSE NewsItem(i)]

NewsFeeds ==
    {Ascending(n) : n \in 0..MaxResults}
        \cup {Descending(n) : n \in 2..MaxResults}
        \cup {Defective(HeadlineLimit + 1, j, "title") : j \in {1, HeadlineLimit + 1}}
        \cup {Defective(1, 1, k) : k \in {"source", "published_at"}}

NewsBodies ==
    {PyNone, PyList(Ascending(1)),
     PyDict([info |-> PyNone]), PyDict([results |-> PyNone])}
        \cup {PyDict([results |-> PyList(f)]) : f \in NewsFeeds}

NewsResponses ==
    {[kind |-> k, body |-> PyNone] : k \in {"connection_error", "invalid_json"}}
        \cup {[kind |-> "json", body |-> b] : b \in NewsBodies}

\* The response is an object with a list under 'results'.
HasResults(resp) ==
    /\ resp.kind = "json"
    /\ resp.body.type = "dict"
    /\ HasKey(resp.body.items, "results")
    /\ resp.body.items["results"].type = "list"

\* The slice left out.
TopNewsUncut(results) == results
\* data.get('results', [])[:5]
TopNews(results) == Take(results, NewsLimit)

\* A failure returned as a placeholder post instead of the empty list.
NewsFetchPlaceholder(resp) ==
    IF HasResults(resp)
    THEN [value |-> Take(resp.body.items["results"].items, NewsLimit), msgs |-> <<>>]
    ELSE [value |-> <<[title |-> 0]>>, msgs |-> <<"error_fetching_news">>]
\* get_crypto_news' body.  data.get raises on a body that is no object, the
\* slice raises on a 'results' that is null; an object without 'results'
\* gives the default [] and no error.
NewsFetch(resp) ==
    IF resp.kind = "json" /\ resp.body.type = "dict"
           /\ ~HasKey(resp.body.items, "results")
    THEN [value |-> <<>>, msgs |-> <<>>]
    ELSE IF HasResults(resp)
    THEN [value |-> TopNews(resp.body.items["results"].items), msgs |-> <<>>]
    ELSE [value |-> <<>>, msgs |-> <<"error_fetching_news">>]

\* ------------------------------------------------------- sentiment (120-130)
\* avg_change = (btc_change + eth_change) / 2, held exactly as its numerator
\* over 2 * Scale.
AvgChange(btc_change, eth_change) == btc_change + eth_change
\* `>=` in place of `>`.
AboveOrEqual(avg_change, t) == avg_change >= t * 2 * Scale
\* avg_change > t, for a threshold t in percent.
Above(avg_change, t) == avg_change > t * 2 * Scale

Sentiment(avg_change) ==
    IF Above(avg_change, GreedAbove) THEN "Greed"
    ELSE IF Above(avg_change, OptimisticAbove) THEN "Optimistic"
    ELSE IF Above(avg_change, CautiousAbove) THEN "Cautious"
    ELSE "Fear"

\* ------------------------------------------------- get_ai_analysis (63-91)
\* f"{x:.2f}" of a change of x units: the nearest number of hundredths of a
\* percent, a tie going to the even one.
Fmt2(x) ==
    LET q == (x * 100) \div Scale
        r == (x * 100) - q * Scale
    IN  IF 2 * r < Scale THEN q
        ELSE IF 2 * r > Scale THEN q + 1
        ELSE IF q % 2 = 0 THEN q ELSE q + 1

\* Every fetched post in place of the first three.
HeadlinesAll(news_data) == news_data
\* news_data[:3]
Headlines(news_data) == Take(news_data, HeadlineLimit)

\* The f-string of lines 67-81 can be evaluated: every key it looks up exists.
PromptBuildable(price_data, news_data) ==
    /\ WellFormed(price_data)
    /\ \A i \in 1..Len(Headlines(news_data)) : HasKey(Headlines(news_data)[i], "title")

PriceLine(price_data, a) ==
    [kind |-> "price", asset |-> a,
     usd |-> price_data.items[a]["usd"] * 100,
     change |-> Fmt2(price_data.items[a]["usd_24h_change"])]

\* The prompt, line by line.
BuildPrompt(price_data, news_data) ==
    <<[kind |-> "task"],
      PriceLine(price_data, "bitcoin"),
      PriceLine(price_data, "ethereum"),
      [kind |-> "headlines"]>>
        \o [i \in 1..Len(Headlines(news_data)) |->
               [kind |-> "headline", title |-> Headlines(news_data)[i]["title"]]]
        \o <<[kind |-> "instructions"]>>

\* The generated texts the provider may send, the empty one among them.
Texts == {<<>>, <<"analysis">>}
TextBlock(t) == [type |-> "text", text |-> t]
\* A content block with no 'text' attribute.
OtherBlock == [type |-> "tool_use"]

\* What client.messages.create(...) can do: raise, or return a message whose
\* content is a list of blocks.
AiResponses ==
    {[kind |-> k, content |-> <<>>] :
         k \in {"authentication_error", "connection_error", "malformed_response"}}
        \cup {[kind |-> "message", content |-> c] :
                 c \in {<<>>, <<OtherBlock>>} \cup {<<TextBlock(t)>> : t \in Texts}}

\* No call was made.
NoResponse == [kind |-> "none", content |-> <<>>]
NoPrompt == <<>>

\* str(e) of the exception lines 65-89 raise, as tokens.
FailureReason(price_data, news_data, resp) ==
    IF ~PromptBuildable(price_data, news_data) THEN <<"KeyError">>
    ELSE IF resp.kind # "message" THEN <<resp.kind>>
    ELSE IF resp.content = <<>> THEN <<"list index out of range">>
    ELSE <<"no attribute 'text'">>

\* f"Unable to generate AI analysis: {e}"
Fallback(reason) == <<"Unable to generate AI analysis: ">> \o reason

\* message.content[0].text can be evaluated.
HasText(resp) ==
    /\ resp.kind = "message"
    /\ resp.content # <<>>
    /\ resp.content[1].type = "text"

\* get_ai_analysis' return value, given what the provider did (NoResponse when
\* the prompt could not be built and no call was made).
AiAnalysis(price_data, news_data, resp) ==
    IF PromptBuildable(price_data, news_data) /\ HasText(resp)
    THEN resp.content[1].text
    ELSE Fallback(FailureReason(price_data, news_data, resp))

\* ------------------------------------------------------------------- state
VARIABLES
    secrets,          \* the three API keys are configured (24-31)
    pc,               \* where the run is
    prices,           \* line 95
    news,             \* line 96
    sentiment,        \* lines 123-130, "none" before
    analysis,         \* line 139
    shown,            \* the elements the run has rendered, in order
    calls,            \* the providers the run has called, in order
    returned,         \* the functions that have returned in the run
    prompt,           \* the prompt sent in the run, NoPrompt when none
    aiResp,           \* what the text-generation provider did in the run
    pricesCache,      \* st.cache_data(ttl=300) of get_crypto_prices
    newsCache,        \* st.cache_data(ttl=600) of get_crypto_news
    priceResp,        \* the price provider's last response
    newsResp,         \* the news provider's last response
    sincePriceCall,   \* seconds since the last price call, -1 when none,
                      \* counted up to PricesTtl
    prevPriceFailed   \* the run before this one got no usable prices

vars == <<secrets, pc, prices, news, sentiment, analysis, shown, calls, returned,
          prompt, aiResp, pricesCache, newsCache, priceResp, newsResp,
          sincePriceCall, prevPriceFailed>>

run == <<prices, news, sentiment, analysis, shown, calls, returned, prompt, aiResp>>
caches == <<pricesCache, newsCache, priceResp, newsResp, sincePriceCall>>

\* ------------------------------------------------------------------ caches
NoEntry(v) == [present |-> FALSE, value |-> v, msgs |-> <<>>, age |-> 0]
\* A value the function returned, with the elements it rendered (replayed on
\* a hit), stored now.
Entry(r) == [present |-> TRUE, value |-> r.value, msgs |-> r.msgs, age |-> 0]
\* An entry that never expires.
FreshForever(entry, ttl) == entry.present
\* The entry is served: it exists and is younger than the ttl.
Fresh(entry, ttl) == entry.present /\ entry.age < ttl
Aged(entry, ttl, secs) ==
    IF entry.present THEN [entry EXCEPT !.age = Min(entry.age + secs, ttl)] ELSE entry

NoPriceResponse == [kind |-> "none", body |-> PyNone]
NoNewsResponse == [kind |-> "none", body |-> PyNone]

\* ------------------------------------------------------------------- Init
Init ==
    /\ secrets \in BOOLEAN
    /\ pc = "idle"
    /\ prices = PyNone
    /\ news = <<>>
    /\ sentiment = "none"
    /\ analysis = <<>>
    /\ shown = <<>>
    /\ calls = <<>>
    /\ returned = {}
    /\ prompt = NoPrompt
    /\ aiResp = NoResponse
    /\ pricesCache = NoEntry(PyNone)
    /\ newsCache = NoEntry(<<>>)
    /\ priceResp = NoPriceResponse
    /\ newsResp = NoNewsResponse
    /\ sincePriceCall = -1
    /\ prevPriceFailed = FALSE

\* ---------------------------------------------------------------- actions
\* The initial load, or 'Update Now' (st.rerun()): the script starts over,
\* wherever the run before it is (a click during a run ends that run there).
\* Without the keys it stops at line 31.
Rerun ==
    /\ prevPriceFailed' = ("get_crypto_prices" \in returned /\ ~WellFormed(prices))
    /\ prices' = PyNone
    /\ news' = <<>>
    /\ sentiment' = "none"
    /\ analysis' = <<>>
    /\ calls' = <<>>
    /\ returned' = {}
    /\ prompt' = NoPrompt
    /\ aiResp' = NoResponse
    /\ shown' = IF secrets THEN <<>> ELSE <<"error_api_keys">>
    /\ pc' = IF secrets THEN "get_prices" ELSE "stopped"
    /\ UNCHANGED <<secrets, caches>>

\* Line 95.  A fresh entry is returned with its elements replayed and no call
\* is made; otherwise the provider is called and whatever the function
\* returns, None included, is stored.
GetCryptoPrices ==
    /\ pc = "get_prices"
    /\ IF Fresh(pricesCache, PricesTtl)
       THEN /\ prices' = pricesCache.value
            /\ shown' = shown \o pricesCache.msgs
            /\ UNCHANGED <<pricesCache, priceResp, sincePriceCall, calls>>
       ELSE \E resp \in PriceResponses(PipelineChanges) :
               /\ prices' = PriceFetch(resp).value
               /\ shown' = shown \o PriceFetch(resp).msgs
               /\ pricesCache' = Entry(PriceFetch(resp))
               /\ priceResp' = resp
               /\ sincePriceCall' = 0
               /\ calls' = Append(calls, "coingecko")
    /\ returned' = returned \cup {"get_crypto_prices"}
    /\ pc' = "get_news"
    /\ UNCHANGED <<secrets, news, sentiment, analysis, prompt, aiResp,
                   newsCache, newsResp, prevPriceFailed>>

\* Line 96, the same way.
GetCryptoNews ==
    /\ pc = "get_news"
    /\ IF Fresh(newsCache, NewsTtl)
       THEN /\ news' = newsCache.value
            /\ shown' = shown \o newsCache.msgs
            /\ UNCHANGED <<newsCache, newsResp, calls>>
       ELSE \E resp \in NewsResponses :
               /\ news' = NewsFetch(resp).value
               /\ shown' = shown \o NewsFetch(resp).msgs
               /\ newsCache' = Entry(NewsFetch(resp))
               /\ newsResp' = resp
               /\ calls' = Append(calls, "cryptopanic")
    /\ returned' = returned \cup {"get_crypto_news"}
    /\ pc' = "render"
    /\ UNCHANGED <<secrets, prices, sentiment, analysis, prompt, aiResp,
                   pricesCache, priceResp, sincePriceCall, prevPriceFailed>>

\* One asset's card can be rendered: the lookups of lines 103-106 (112-115).
CardOk(price_data, a) ==
    /\ HasKey(price_data.items, a)
    /\ HasKey(price_data.items[a], "usd_24h_change")
    /\ HasKey(price_data.items[a], "usd")

\* Lines 98-132, `if prices:` taken.  A missing key raises where it is looked
\* up: the cards before it stay rendered and the run ends there.
RenderPriceCards ==
    /\ pc = "render"
    /\ Truthy(prices)
    /\ IF ~CardOk(prices, "bitcoin")
       THEN /\ shown' = shown \o <<"exception">>
            /\ pc' = "crashed"
            /\ UNCHANGED sentiment
       ELSE IF ~CardOk(prices, "ethereum")
       THEN /\ shown' = shown \o <<"card_btc", "exception">>
            /\ pc' = "crashed"
            /\ UNCHANGED sentiment
       ELSE /\ shown' = shown \o <<"card_btc", "card_eth", "card_sentiment">>
            /\ sentiment' = Sentiment(AvgChange(prices.items["bitcoin"]["usd_24h_change"],
                                                prices.items["ethereum"]["usd_24h_change"]))
            /\ pc' = "analysis"
    /\ UNCHANGED <<secrets, prices, news, analysis, calls, returned, prompt, aiResp,
                   caches, prevPriceFailed>>

\* Lines 155-160, `if prices:` not taken.
ShowFetchError ==
    /\ pc = "render"
    /\ ~Truthy(prices)
    /\ shown' = shown \o <<"error_unable_to_fetch", "footer">>
    /\ pc' = "done"
    /\ UNCHANGED <<secrets, prices, news, sentiment, analysis, calls, returned,
                   prompt, aiResp, caches, prevPriceFailed>>

\* get_ai_analysis calling the provider again after a failure.
GetAiAnalysisRetrying ==
    /\ pc = "analysis"
    /\ \E resp \in AiResponses :
          /\ prompt' = IF PromptBuildable(prices, news)
                       THEN BuildPrompt(prices, news) ELSE NoPrompt
          /\ aiResp' = resp
          /\ calls' = Append(calls, "anthropic")
          /\ analysis' = AiAnalysis(prices, news, resp)
          /\ pc' = IF HasText(resp) THEN "render_news" ELSE "analysis"
    /\ shown' = shown \o <<"analysis">>
    /\ returned' = returned \cup {"get_ai_analysis"}
    /\ UNCHANGED <<secrets, prices, news, sentiment, caches, prevPriceFailed>>

\* Lines 138-140.  The provider is called once, and only when the prompt could
\* be built; whatever is raised becomes the fallback text.
GetAiAnalysis ==
    /\ pc = "analysis"
    /\ IF PromptBuildable(prices, news)
       THEN \E resp \in AiResponses :
               /\ prompt' = BuildPrompt(prices, news)
               /\ aiResp' = resp
               /\ calls' = Append(calls, "anthropic")
               /\ analysis' = AiAnalysis(prices, news, resp)
       ELSE /\ analysis' = AiAnalysis(prices, news, NoResponse)
            /\ UNCHANGED <<prompt, aiResp, calls>>
    /\ shown' = shown \o <<"analysis">>
    /\ returned' = returned \cup {"get_ai_analysis"}
    /\ pc' = "render_news"
    /\ UNCHANGED <<secrets, prices, news, sentiment, caches, prevPriceFailed>>

\* The elements lines 147-151 render for the items from the i-th on: a title
\* and a caption each, up to the first missing key.
RECURSIVE NewsElements(_, _)
NewsElements(items, i) ==
    IF i > Len(items) THEN <<>>
    ELSE IF ~HasKey(items[i], "title") THEN <<"exception">>
    ELSE IF ~HasKey(items[i], "source") \/ ~HasKey(items[i], "published_at")
    THEN <<"news_title", "exception">>
    ELSE <<"news_title", "news_caption">> \o NewsElements(items, i + 1)

\* Lines 142-160.
RenderNews ==
    /\ pc = "render_news"
    /\ IF news = <<>>
       THEN /\ shown' = shown \o <<"no_news", "footer">>
            /\ pc' = "done"
       ELSE IF "exception" \in {NewsElements(news, 1)[i] : i \in 1..Len(NewsElements(news, 1))}
       THEN /\ shown' = shown \o NewsElements(news, 1)
            /\ pc' = "crashed"
       ELSE /\ shown' = shown \o NewsElements(news, 1) \o <<"footer">>
            /\ pc' = "done"
    /\ UNCHANGED <<secrets, prices, news, sentiment, analysis, calls, returned,
                   prompt, aiResp, caches, prevPriceFailed>>

\* d * ClockStep seconds pass.
Tick(d) ==
    /\ pricesCache' = Aged(pricesCache, PricesTtl, d * ClockStep)
    /\ newsCache' = Aged(newsCache, NewsTtl, d * ClockStep)
    /\ sincePriceCall' = IF sincePriceCall < 0 THEN sincePriceCall
                         ELSE Min(sincePriceCall + d * ClockStep, PricesTtl)
    /\ UNCHANGED <<secrets, pc, run, priceResp, newsResp, prevPriceFailed>>

Next ==
    \/ Rerun
    \/ GetCryptoPrices
    \/ GetCryptoNews
    \/ RenderPriceCards
    \/ ShowFetchError
    \/ GetAiAnalysis
    \/ RenderNews
    \/ \E d \in 1..MaxTick : Tick(d)

Spec == Init /\ [][Next]_vars

\* ------------------------------------------- the sentiment derivation alone
\* The first run of a configured dashboard right after its two fetches, the
\* price provider having answered with any well-formed body.
InitDerive ==
    \E resp \in {r \in PriceResponses(Changes) : WellFormed(r.body)} :
      LET nresp == [kind |-> "json", body |-> PyDict([results |-> PyList(Ascending(0))])]
      IN
        /\ secrets = TRUE
        /\ pc = "render"
        /\ prices = PriceFetch(resp).value
        /\ news = NewsFetch(nresp).value
        /\ sentiment = "none"
        /\ analysis = <<>>
        /\ shown = <<>>
        /\ calls = <<"coingecko", "cryptopanic">>
        /\ returned = {"get_crypto_prices", "get_crypto_news"}
        /\ prompt = NoPrompt
        /\ aiResp = NoResponse
        /\ pricesCache = Entry(PriceFetch(resp))
        /\ newsCache = Entry(NewsFetch(nresp))
        /\ priceResp = resp
        /\ newsResp = nresp
        /\ sincePriceCall = 0
        /\ prevPriceFailed = FALSE

NextDerive == RenderPriceCards

DeriveSpec == InitDerive /\ [][NextDerive]_vars

\* ================================================================== claims
Elements == {shown[i] : i \in 1..Len(shown)}
Called == {calls[i] : i \in 1..Len(calls)}
Times(seq, x) == Cardinality({i \in 1..Len(seq) : seq[i] = x})
Terminal == pc \in {"done", "crashed"}
Cards == {"card_btc", "card_eth", "card_sentiment"}
\* The price result is absent or empty: None, or an object with nothing in it.
AbsentPrices == prices.type = "None" \/ (prices.type = "dict" /\ DOMAIN prices.items = {})
\* The run ended in the aggregate-failure state: the one banner and none of
\* the cards, the summary or the news.
AggregateFailure ==
    /\ pc = "done"
    /\ Times(shown, "error_unable_to_fetch") = 1
    /\ Elements \cap (Cards \cup {"analysis", "news_title", "news_caption", "no_news"}) = {}
    /\ sentiment = "none"
    /\ "get_ai_analysis" \notin returned
    /\ "anthropic" \notin Called

\* ---- C1 (DeriveSpec)
\* C1: for every pair of 24h changes, with avg their mean, the label is Greed
\* iff avg > 2, Optimistic iff 0 < avg <= 2, Cautious iff -2 < avg <= 0 and
\* Fear iff avg <= -2.  (btc + eth is 2 * avg, in units of 1/Scale percent.)
C1_SentimentThresholds ==
    sentiment # "none" =>
        LET twice == prices.items["bitcoin"]["usd_24h_change"]
                         + prices.items["ethereum"]["usd_24h_change"]
            two == 2 * 2 * Scale
        IN  /\ sentiment = "Greed" <=> twice > two
            /\ sentiment = "Optimistic" <=> (0 < twice /\ twice <= two)
            /\ sentiment = "Cautious" <=> (0 - two < twice /\ twice <= 0)
            /\ sentiment = "Fear" <=> twice <= 0 - two

\* avg exactly 2.0, from two different changes, is labelled.
C1_Witness ==
    /\ sentiment = "Optimistic"
    /\ prices.items["bitcoin"]["usd_24h_change"] = 3 * Scale
    /\ prices.items["ethereum"]["usd_24h_change"] = Scale

\* ---- C2
\* The price provider's last response is a failure: the request or the
\* decoding raised, or the body is not the two assets with their two fields.
PriceResponseFailed ==
    /\ priceResp.kind # "none"
    /\ priceResp.kind = "json" => ~WellFormed(priceResp.body)

\* C2: any failure of the price fetch (network error, rejection, malformed
\* body) yields an absent price result and a run that ends in the
\* aggregate-failure state: never a crash, never a price card.
C2_PriceFailureIsAggregateFailure ==
    (Terminal /\ PriceResponseFailed) => (AbsentPrices /\ AggregateFailure)

\* ---- C3
\* C3: a run whose price fetch yields no data while its news fetch succeeds
\* completes in the aggregate-failure state: the top-level error once, and no
\* card, sentiment, summary (nor call for one) or news item.
C3_NoPricesIsAggregateFailure ==
    (Terminal /\ AbsentPrices /\ HasResults(newsResp)) => AggregateFailure

C3_Witness ==
    /\ pc = "done"
    /\ AbsentPrices
    /\ HasResults(newsResp)
    /\ Len(news) = NewsLimit
    /\ AggregateFailure

\* ---- C4
\* The provider's output is empty: no content block, or an empty text.
EmptyOutput ==
    /\ aiResp.kind = "message"
    /\ \/ aiResp.content = <<>>
       \/ (aiResp.content[1].type = "text" /\ aiResp.content[1].text = <<>>)

IsFallback(text) ==
    /\ Len(text) >= 1
    /\ text[1] = "Unable to generate AI analysis: "
    /\ SubSeq(text, 2, Len(text)) = FailureReason(prices, news, aiResp)

\* C4: once get_ai_analysis has returned, the summary is non-empty; it is the
\* generated text or the fallback holding the failure's reason, and an empty
\* output gives the fallback.
C4_SummaryNeverEmpty ==
    "get_ai_analysis" \in returned =>
        /\ analysis # <<>>
        /\ \/ (HasText(aiResp) /\ analysis = aiResp.content[1].text)
           \/ IsFallback(analysis)
        /\ EmptyOutput => IsFallback(analysis)

\* ---- C5
\* The news provider's last response is a failure of the call or of reading
\* its posts.
NewsResponseFailed == newsResp.kind # "none" /\ ~HasResults(newsResp)

\* C5: when the news fetch fails and the price fetch succeeds,
\* get_crypto_news returns the empty list and the run completes normally:
\* the cards, the sentiment, a summary, and the empty-list notice in place of
\* news items.
C5_NewsFailureDegrades ==
    ("get_crypto_news" \in returned /\ NewsResponseFailed /\ WellFormed(prices)) =>
        /\ news = <<>>
        /\ pc # "crashed"
        /\ pc = "done" =>
              /\ Cards \subseteq Elements
              /\ sentiment # "none"
              /\ "get_ai_analysis" \in returned
              /\ "analysis" \in Elements
              /\ Times(shown, "no_news") = 1
              /\ "news_title" \notin Elements
              /\ "error_unable_to_fetch" \notin Elements

C5_Witness ==
    /\ pc = "done"
    /\ newsResp.kind = "connection_error"
    /\ "error_fetching_news" \in Elements
    /\ WellFormed(prices)
    /\ "no_news" \in Elements

\* ---- C6
\* C6: a price fetch less than 300 s after the call that filled the cache
\* returns that call's value and makes no call; one after the 300 s have
\* elapsed (or with no call before it) makes a call.
C6_CacheFreshness ==
    [][(pc = "get_prices" /\ pc' = "get_news") =>
           IF 0 <= sincePriceCall /\ sincePriceCall < 300
           THEN calls' = calls /\ prices' = PriceFetch(priceResp).value
           ELSE calls' = Append(calls, "coingecko")]_vars

\* A run served from the cache some time after the call.
C6_Witness ==
    /\ "get_crypto_prices" \in returned
    /\ "coingecko" \notin Called
    /\ 0 < sincePriceCall
    /\ sincePriceCall < 300
    /\ prices = priceResp.body

\* ---- C7
\* C7: after a run whose price fetch failed, the next refresh gets its prices
\* from a new call to the provider, whatever time has passed.
C7_RefreshAfterFailureCallsAgain ==
    (prevPriceFailed /\ "get_crypto_prices" \in returned) => "coingecko" \in Called

\* ---- C8
\* C8: the news list a run holds has at most 5 items and is the first
\* min(5, n) of the n items of the provider's 'results', in their order.
C8_NewsIsPrefix ==
    "get_crypto_news" \in returned =>
        /\ Len(news) <= 5
        /\ HasResults(newsResp) =>
              LET results == newsResp.body.items["results"].items
              IN  /\ Len(news) = (IF Len(results) < 5 THEN Len(results) ELSE 5)
                  /\ \A i \in 1..Len(news) : news[i] = results[i]

C8_Witness ==
    /\ "get_crypto_news" \in returned
    /\ HasResults(newsResp)
    /\ Len(newsResp.body.items["results"].items) > 5
    /\ Len(news) = 5
    /\ news[1] # NewsItem(1)

\* ---- C9
HeadlineTitles ==
    LET lines == SelectSeq(prompt, LAMBDA l : l.kind = "headline")
    IN  [i \in 1..Len(lines) |-> lines[i].title]

\* C9: the prompt's headlines are exactly the titles of the first min(3, n)
\* of the n news items, in list order, and no title of a 4th or 5th item.
C9_PromptHeadlines ==
    prompt # NoPrompt =>
        LET k == IF Len(news) < 3 THEN Len(news) ELSE 3
        IN  /\ Len(HeadlineTitles) = k
            /\ \A i \in 1..k : HeadlineTitles[i] = news[i]["title"]
            /\ \A j \in 4..Len(news) :
                  "title" \in DOMAIN news[j] =>
                      \A i \in 1..Len(HeadlineTitles) : HeadlineTitles[i] # news[j]["title"]

C9_Witness ==
    /\ prompt # NoPrompt
    /\ Len(news) = 5
    /\ Len(HeadlineTitles) = 3

\* ---- C10
Rank(provider) ==
    CASE provider = "coingecko" -> 1
      [] provider = "cryptopanic" -> 2
      [] provider = "anthropic" -> 3

\* C10: in a run the providers are called in the order price, news, text
\* generation; the text-generation provider is called at most once, only
\* after both fetches have returned, and not again after a failure.
C10_CallOrder ==
    /\ \A i, j \in 1..Len(calls) : i < j => Rank(calls[i]) < Rank(calls[j])
    /\ Times(calls, "anthropic") <= 1
    /\ "anthropic" \in Called => {"get_crypto_prices", "get_crypto_news"} \subseteq returned

\* A run whose one call to the text-generation provider failed, at its end.
C10_Witness ==
    /\ pc = "done"
    /\ calls = <<"coingecko", "cryptopanic", "anthropic">>
    /\ aiResp.kind = "connection_error"

====
